---- MODULE Spec2Model ----
(***************************************************************************)
(* Credit decision and financing engine of ola_backend (finance app).      *)
(*                                                                         *)
(* Money is counted in cents (Decimal with two places), percentages in     *)
(* whole percent, dates in days since 1 January of a non-leap year.        *)
(* maximum_allowed_installment is kept in 1/10000 units (income x k has     *)
(* four decimal places).                                                   *)
(*                                                                         *)
(* Five specifications share the operators below:                          *)
(*   SpecEngine  DecisionEngine.run on one FinancePlan object              *)
(*   SpecPlan    the create-plan request (FinancePlanAPIView.post) with    *)
(*               the post_save signal that generates the EMI schedule      *)
(*   SpecPay     the two payment paths on the schedule of one plan         *)
(*   SpecAuto    credit score check, threshold configuration and the       *)
(*               pre-qualification request (AutoFinancePlanView.post)      *)
(*   SpecCalc    the calculations of FinancePlan, one call on one object   *)
(***************************************************************************)
EXTENDS Integers, Sequences, FiniteSets, TLC

\* ------------------------------------------------------------------------
\* Program constants
\* ------------------------------------------------------------------------
TierAMin == 600
TierBMin == 550
TierCMin == 500
HighEndThreshold == 30000
ApprovedMin == 80
ConditionalMin == 60
AdjustStepPct == 5
RescheduleGapDays == 15
FirstDueOffsetDays == 30
EngineSignal == 100
NoScore == 0 - 9999

\* ------------------------------------------------------------------------
\* Arithmetic helpers (Decimal semantics)
\* ------------------------------------------------------------------------
Abs(x) == IF x < 0 THEN 0 - x ELSE x

Min2(a, b) == IF a <= b THEN a ELSE b

\* One statement after another: x is evaluated once and F works on its value
Then(x, F(_)) == CHOOSE y \in { F(v) : v \in {x} } : TRUE

\* quantize with rounding toward zero
RoundDownDiv(n, d) == IF n >= 0 THEN n \div d ELSE 0 - ((0 - n) \div d)

\* Decimal.quantize(Decimal('1'), rounding=ROUND_UP): away from zero, d > 0
RoundUpDiv(n, d) ==
    IF n >= 0 THEN (n + d - 1) \div d ELSE 0 - (((0 - n) + d - 1) \div d)

SetMin(S) == CHOOSE x \in S : \A y \in S : x <= y

\* ------------------------------------------------------------------------
\* decimal.Decimal in the default context: 28 significant digits, rounding
\* ROUND_HALF_EVEN.  A value is a sign and DecLen decimal digits, the first
\* DecInt of them before the point.
\* ------------------------------------------------------------------------
DecPrec == 28
DecInt == 8
DecLen == 44

Pow10(k) == <<1, 10, 100, 1000, 10000, 100000, 1000000, 10000000>>[k + 1]

DecZero == [neg |-> FALSE, dg |-> [i \in 1..DecLen |-> 0]]

\* position of the first significant digit
FirstDigit(dg) ==
    IF \A i \in 1..DecLen : dg[i] = 0 THEN DecLen + 1
    ELSE CHOOSE i \in 1..DecLen : dg[i] # 0 /\ \A j \in 1..(i - 1) : dg[j] = 0

\* one unit more at position pos, the digits after pos being zero
Increment(dg, pos) ==
    CHOOSE r \in { [i \in 1..DecLen |->
                       IF i < j THEN dg[i] ELSE IF i = j THEN dg[i] + 1 ELSE 0] :
                   j \in { k \in 1..pos : dg[k] # 9
                                          /\ \A m \in (k + 1)..pos : dg[m] = 9 } } :
        TRUE

\* ROUND_HALF_EVEN on the digits from position cut on; sticky tells that
\* non-zero digits follow the last one kept in dg
RoundsUp(dg, cut, sticky) ==
    \/ dg[cut] > 5
    \/ /\ dg[cut] = 5
       /\ \/ sticky
          \/ \E j \in (cut + 1)..DecLen : dg[j] # 0
          \/ dg[cut - 1] % 2 = 1

DecRoundAt(x, cut, sticky) ==
    IF cut > DecLen THEN x
    ELSE CHOOSE r \in { [neg |-> x.neg,
                         dg |-> IF RoundsUp(x.dg, cut, sticky)
                                THEN Increment(t, cut - 1) ELSE t] :
                        t \in { [i \in 1..DecLen |->
                                    IF i < cut THEN x.dg[i] ELSE 0] } } : TRUE

\* the context's rounding to DecPrec significant digits
DecRound(x, sticky) ==
    CHOOSE r \in { DecRoundAt(v, FirstDigit(v.dg) + DecPrec, sticky) :
                   v \in {x} } : TRUE

\* remainders of the long division r / d, one for each digit after the point
RECURSIVE Rems(_, _, _)
Rems(r, d, k) ==
    IF k = 0 THEN << >>
    ELSE CHOOSE s \in { <<r2>> \o Rems(r2, d, k - 1) : r2 \in {(r * 10) % d} } :
             TRUE

QuotientDigit(a, d, rs, i) ==
    IF i <= DecInt THEN ((a \div d) \div Pow10(DecInt - i)) % 10
    ELSE ((IF i = DecInt + 1 THEN a % d ELSE rs[i - DecInt - 1]) * 10) \div d

\* Decimal(n) / Decimal(d) for integers n and d > 0
DecDiv(n, d) ==
    CHOOSE q \in { DecRound([neg |-> n < 0,
                             dg |-> [i \in 1..DecLen |->
                                        QuotientDigit(Abs(n), d, rs, i)]],
                            rs[DecLen - DecInt] # 0) :
                   rs \in {Rems(Abs(n) % d, d, DecLen - DecInt)} } : TRUE

\* x * 10^k, exact
DecShift(x, k) ==
    [neg |-> x.neg,
     dg |-> [i \in 1..DecLen |->
                IF i + k \in 1..DecLen THEN x.dg[i + k] ELSE 0]]

RECURSIVE MulCarry(_, _, _, _)
MulCarry(dg, m, i, carry) ==
    IF i = 0 THEN << >>
    ELSE CHOOSE s \in { MulCarry(dg, m, i - 1, v \div 10) \o <<v % 10>> :
                        v \in {dg[i] * m + carry} } : TRUE

RECURSIVE AddCarry(_, _, _, _)
AddCarry(a, b, i, carry) ==
    IF i = 0 THEN << >>
    ELSE CHOOSE s \in { AddCarry(a, b, i - 1, v \div 10) \o <<v % 10>> :
                        v \in {a[i] + b[i] + carry} } : TRUE

RECURSIVE SubBorrow(_, _, _, _)
SubBorrow(a, b, i, borrow) ==
    IF i = 0 THEN << >>
    ELSE CHOOSE s \in { SubBorrow(a, b, i - 1, IF v < 0 THEN 1 ELSE 0)
                            \o <<(v + 10) % 10>> :
                        v \in {a[i] - b[i] - borrow} } : TRUE

MagLess(a, b) ==
    \E i \in 1..DecLen : a[i] < b[i] /\ \A j \in 1..(i - 1) : a[j] = b[j]

DecSum(x, y) ==
    IF x.neg = y.neg
    THEN [neg |-> x.neg, dg |-> AddCarry(x.dg, y.dg, DecLen, 0)]
    ELSE IF MagLess(x.dg, y.dg)
    THEN [neg |-> y.neg, dg |-> SubBorrow(y.dg, x.dg, DecLen, 0)]
    ELSE [neg |-> x.neg, dg |-> SubBorrow(x.dg, y.dg, DecLen, 0)]

\* x + y
DecAdd(x, y) ==
    CHOOSE r \in { DecRound(DecSum(xv, yv), FALSE) : xv \in {x}, yv \in {y} } :
        TRUE

\* Decimal('0.30') * x
DecTimes030(x) ==
    CHOOSE r \in { DecRound(DecShift([neg |-> xv.neg,
                                      dg |-> MulCarry(xv.dg, 3, DecLen, 0)],
                                     0 - 1), FALSE) :
                   xv \in {x} } : TRUE

RECURSIVE IntPart(_, _)
IntPart(dg, i) ==
    IF i = 0 THEN 0 ELSE dg[i] * Pow10(DecInt - i) + IntPart(dg, i - 1)

\* int(x): truncation toward zero
DecToInt(x) ==
    CHOOSE n \in { IF xv.neg THEN 0 - IntPart(xv.dg, DecInt)
                   ELSE IntPart(xv.dg, DecInt) : xv \in {x} } : TRUE

\* min(100, x) and max(0, x)
DecMin100(x) ==
    CHOOSE r \in { IF xv.neg \/ IntPart(xv.dg, DecInt) < 100 THEN xv
                   ELSE DecDiv(100, 1) : xv \in {x} } : TRUE

DecMax0(x) ==
    CHOOSE r \in { IF xv.neg THEN DecZero ELSE xv : xv \in {x} } : TRUE


\* ------------------------------------------------------------------------
\* FinancePlan: tiering and tier rules
\* ------------------------------------------------------------------------
\* the comparisons made strict
DetermineRiskTierStrict(apc) ==
    IF apc > TierAMin THEN "TIER_A"
    ELSE IF apc > TierBMin THEN "TIER_B"
    ELSE IF apc > TierCMin THEN "TIER_C"
    ELSE "TIER_D"

DetermineRiskTier(apc) ==
    IF apc >= TierAMin THEN "TIER_A"
    ELSE IF apc >= TierBMin THEN "TIER_B"
    ELSE IF apc >= TierCMin THEN "TIER_C"
    ELSE "TIER_D"

TierRules ==
    [TIER_A |-> [min_down_payment |-> 20, allowed_terms |-> {4, 6, 8},
                 payment_capacity_factor |-> 30, high_end_extra |-> 0],
     TIER_B |-> [min_down_payment |-> 20, allowed_terms |-> {6, 8},
                 payment_capacity_factor |-> 20, high_end_extra |-> 5],
     TIER_C |-> [min_down_payment |-> 25, allowed_terms |-> {8},
                 payment_capacity_factor |-> 15, high_end_extra |-> 10],
     TIER_D |-> [min_down_payment |-> 100, allowed_terms |-> {},
                 payment_capacity_factor |-> 0, high_end_extra |-> 0]]

GetTierRules(tier) ==
    IF tier \in DOMAIN TierRules THEN TierRules[tier] ELSE TierRules["TIER_D"]

IsHighEnd(price) == price > HighEndThreshold

\* the tier's percentage without the high-end extra
MinDownPercentageNoExtra(p) == GetTierRules(p.risk_tier).min_down_payment

\* calculate_minimum_down_payment: sets the percentage on the plan; the
\* returned amount is MinimumDownPaymentTimes100 / 100
MinDownPercentage(p) ==
    LET rules == GetTierRules(p.risk_tier) IN
    IF p.is_high_end_device /\ p.risk_tier \in {"TIER_B", "TIER_C"}
    THEN rules.min_down_payment + rules.high_end_extra
    ELSE rules.min_down_payment

CalculateMinimumDownPayment(p) ==
    [p EXCEPT !.minimum_down_payment_percentage = MinDownPercentage(p)]

MinimumDownPaymentTimes100(p) == p.device_price * MinDownPercentage(p)

\* calculate_emi: amount_to_finance / term rounded up to a whole unit
CalculateEmi(p) ==
    IF p.selected_term # 0 /\ p.amount_to_finance # 0
    THEN [p EXCEPT !.monthly_installment =
              100 * RoundUpDiv(p.amount_to_finance, 100 * p.selected_term)]
    ELSE [p EXCEPT !.monthly_installment = 0]

\* check_payment_capacity raises DivisionByZero when the ratio is computed
\* on a zero income
CapacityRaises(p) ==
    /\ p.risk_tier # "TIER_D"
    /\ p.monthly_installment > 0
    /\ p.customer_monthly_income = 0

\* check_payment_capacity without the tier D veto
CheckPaymentCapacityNoVeto(p) ==
    LET k == GetTierRules(p.risk_tier).payment_capacity_factor
        maxi == p.customer_monthly_income * k
    IN  [p EXCEPT !.payment_capacity_factor = k,
                  !.maximum_allowed_installment = maxi,
                  !.installment_to_income_ratio =
                      IF p.monthly_installment > 0 /\ p.customer_monthly_income # 0
                      THEN [num |-> p.monthly_installment * 100,
                            den |-> p.customer_monthly_income]
                      ELSE @,
                  !.payment_capacity_passed =
                      (p.monthly_installment * 100 <= maxi)]

CheckPaymentCapacity(p) ==
    LET k == GetTierRules(p.risk_tier).payment_capacity_factor
        maxi == p.customer_monthly_income * k
    IN  IF p.risk_tier = "TIER_D"
        THEN [p EXCEPT !.payment_capacity_factor = k,
                       !.payment_capacity_passed = FALSE]
        ELSE [p EXCEPT !.payment_capacity_factor = k,
                       !.maximum_allowed_installment = maxi,
                       !.installment_to_income_ratio =
                           IF p.monthly_installment > 0
                           THEN [num |-> p.monthly_installment * 100,
                                 den |-> p.customer_monthly_income]
                           ELSE @,
                       !.payment_capacity_passed =
                           (p.monthly_installment * 100 <= maxi)]

\* validate_conditions: the four checks and one note per failed check
DownPaymentOk(p) == p.actual_down_payment * 100 >= MinimumDownPaymentTimes100(p)

TermOk(p) == p.selected_term \in GetTierRules(p.risk_tier).allowed_terms

HighEndOk(p) ==
    IF p.is_high_end_device /\ p.risk_tier \in {"TIER_B", "TIER_C"}
    THEN DownPaymentOk(p) ELSE TRUE

ValidationNotes(p, capacity_ok) ==
    (IF DownPaymentOk(p) THEN << >> ELSE <<"down_payment">>)
    \o (IF TermOk(p) THEN << >> ELSE <<"term">>)
    \o (IF capacity_ok THEN << >> ELSE <<"capacity">>)
    \o (IF HighEndOk(p) THEN << >> ELSE <<"high_end">>)

ConditionsMet(p) ==
    DownPaymentOk(p) /\ TermOk(p) /\ p.payment_capacity_passed /\ HighEndOk(p)

SetConditions(p) ==
    IF ConditionsMet(p)
    THEN [p EXCEPT !.conditions_met = TRUE]
    ELSE [p EXCEPT !.conditions_met = FALSE,
                   !.requires_adjustment = TRUE,
                   !.adjustment_notes =
                       ValidationNotes(p, p.payment_capacity_passed)]

ValidateConditions(p) ==
    Then(Then(CalculateMinimumDownPayment(p), CheckPaymentCapacity),
         SetConditions)

\* calculate_final_score
ApcNorm(apc) == DecMin100(DecMax0(DecShift(DecDiv(apc - 500, 300), 2)))

\* capacity_norm: capped at 100 from above only
CapacityNorm(p) ==
    IF p.maximum_allowed_installment > 0
    THEN DecMin100(DecShift(DecDiv(p.maximum_allowed_installment
                                     - p.monthly_installment * 100,
                                   p.maximum_allowed_installment), 2))
    ELSE DecZero

\* int(0.30*apc_norm + 0.30*capacity_norm + 0.20*b + 0.10*r + 0.10*g), the
\* sum taken from left to right
WeightedSum(p, biometric, references, geo) ==
    DecAdd(DecAdd(DecAdd(DecAdd(DecTimes030(ApcNorm(p.apc_score)),
                                DecTimes030(CapacityNorm(p))),
                         DecDiv(20 * biometric, 100)),
                  DecDiv(10 * references, 100)),
           DecDiv(10 * geo, 100))

FinalScore(p, biometric, references, geo) ==
    DecToInt(WeightedSum(p, biometric, references, geo))

ScoreStatus(score) ==
    IF score >= ApprovedMin THEN "APPROVED"
    ELSE IF score >= ConditionalMin THEN "CONDITIONAL"
    ELSE "REJECTED"

CalculateFinalScore(p, biometric, references, geo) ==
    Then(FinalScore(p, biometric, references, geo),
         LAMBDA s : [p EXCEPT !.final_score = s, !.score_status = ScoreStatus(s)])

\* FinancePlan.save: the fields recomputed before the row is written
SaveTier(p) ==
    IF p.apc_score # 0
    THEN [p EXCEPT !.risk_tier = DetermineRiskTier(p.apc_score)]
    ELSE p

SaveHighEnd(p) ==
    IF p.device_price # 0
    THEN [p EXCEPT !.is_high_end_device = IsHighEnd(p.device_price)]
    ELSE p

SaveAmounts(p) ==
    IF p.actual_down_payment # 0 /\ p.device_price # 0
    THEN [p EXCEPT !.down_payment_percentage =
                       [num |-> p.actual_down_payment * 100,
                        den |-> p.device_price],
                   !.amount_to_finance = p.device_price - p.actual_down_payment]
    ELSE p

TotalPayable(p) ==
    [p EXCEPT !.total_amount_payable =
        p.actual_down_payment + p.monthly_installment * p.selected_term]

SaveEmi(p) ==
    IF p.selected_term # 0 /\ p.amount_to_finance # 0
    THEN Then(CalculateEmi(p), TotalPayable)
    ELSE p

SaveCapacity(p) ==
    IF p.customer_monthly_income # 0 THEN CheckPaymentCapacity(p) ELSE p

SaveAllowedTerms(p) ==
    [p EXCEPT !.allowed_terms = GetTierRules(p.risk_tier).allowed_terms]

SaveComputed(p) ==
    Then(Then(Then(Then(Then(SaveTier(p), SaveHighEnd), SaveAmounts), SaveEmi),
              SaveCapacity),
         SaveAllowedTerms)

\* ------------------------------------------------------------------------
\* DecisionEngine
\* ------------------------------------------------------------------------
\* run, steps 1-7: tier, high-end flag, minimum down payment, EMI, capacity,
\* validation and the first scoring (biometric, references, geo fixed at 100)
TierAndHighEnd(p) ==
    [p EXCEPT !.risk_tier = DetermineRiskTier(p.apc_score),
              !.is_high_end_device = IsHighEnd(p.device_price)]

BeforeCapacity(p) ==
    Then(Then(TierAndHighEnd(p), CalculateMinimumDownPayment), CalculateEmi)

ScoreStageRaises(p) == Then(BeforeCapacity(p), CapacityRaises)

FirstScore(p) ==
    CalculateFinalScore(p, EngineSignal, EngineSignal, EngineSignal)

ScoreStage(p) ==
    Then(Then(Then(BeforeCapacity(p), CheckPaymentCapacity), ValidateConditions),
         FirstScore)

\* dynamic_adjustment: down payment + 5% of the price, term down to the
\* tier's smallest allowed term
CanRaiseDownPayment(p) ==
    p.down_payment_percentage.num + AdjustStepPct * p.down_payment_percentage.den
        <= 100 * p.down_payment_percentage.den

RaiseDownPayment(p) ==
    [p EXCEPT !.actual_down_payment =
                  @ + (p.device_price * AdjustStepPct) \div 100,
              !.down_payment_percentage =
                  [num |-> (p.actual_down_payment
                              + (p.device_price * AdjustStepPct) \div 100) * 100,
                   den |-> p.device_price]]

CanReduceTerm(p) ==
    LET terms == GetTierRules(p.risk_tier).allowed_terms
    IN  terms # {} /\ p.selected_term > SetMin(terms)

ReduceTerm(p) ==
    [p EXCEPT !.selected_term = SetMin(GetTierRules(p.risk_tier).allowed_terms)]

TryRaiseDownPayment(p) ==
    IF CanRaiseDownPayment(p) THEN RaiseDownPayment(p) ELSE p

TryReduceTerm(p) == IF CanReduceTerm(p) THEN ReduceTerm(p) ELSE p

AmountToFinance(p) ==
    [p EXCEPT !.amount_to_finance = p.device_price - p.actual_down_payment]

AdjustedInputs(p) ==
    Then(Then(Then(Then(TryRaiseDownPayment(p), TryReduceTerm), AmountToFinance),
              CalculateEmi),
         TotalPayable)

Adjusted(p) == CanRaiseDownPayment(p) \/ CanReduceTerm(p)

AdjustRaises(p) == Adjusted(p) /\ Then(AdjustedInputs(p), CapacityRaises)

SecondScore(p) == CalculateFinalScore(p, 0, 0, 0)

DynamicAdjustment(p) ==
    IF Adjusted(p)
    THEN Then(Then(Then(AdjustedInputs(p), CheckPaymentCapacity),
                   ValidateConditions),
              SecondScore)
    ELSE p

\* run, step 8: the adjustment is attempted when the first scoring is
\* CONDITIONAL
NeedsAdjustment(p) == p.score_status = "CONDITIONAL"

\* save_decision_result: the DecisionEngineResult row written for the plan
DecisionResult(p) ==
    [apc_score_value |-> p.apc_score,
     apc_score_passed |-> p.risk_tier # "TIER_D",
     income_amount |-> p.customer_monthly_income,
     installment_amount |-> p.monthly_installment,
     payment_capacity_passed |-> p.payment_capacity_passed,
     loan_term_months |-> p.selected_term,
     is_high_end_device |-> p.is_high_end_device,
     commercial_conditions_passed |-> p.conditions_met,
     total_score |-> p.final_score,
     final_decision |-> IF p.score_status = "NONE" THEN "REJECTED"
                        ELSE p.score_status]

\* One step of DecisionEngine.run on the context
\*   [pc, plan, adjust_calls, first_status]
\* pc: "start" -> "scored" -> "adjusted" -> "saved" -> "done", or "raised".
EngineStep(c) ==
    CASE c.pc = "start" ->
           IF ScoreStageRaises(c.plan)
           THEN [c EXCEPT !.pc = "raised", !.plan = BeforeCapacity(c.plan)]
           ELSE Then(ScoreStage(c.plan),
                     LAMBDA p : [c EXCEPT !.pc = "scored", !.plan = p,
                                          !.first_status = p.score_status])
      [] c.pc = "scored" ->
           IF NeedsAdjustment(c.plan)
           THEN IF AdjustRaises(c.plan)
                THEN [c EXCEPT !.pc = "raised",
                               !.plan = AdjustedInputs(c.plan),
                               !.adjust_calls = c.adjust_calls + 1]
                ELSE [c EXCEPT !.pc = "adjusted",
                               !.plan = DynamicAdjustment(c.plan),
                               !.adjust_calls = c.adjust_calls + 1]
           ELSE [c EXCEPT !.pc = "adjusted"]
      [] c.pc = "adjusted" ->
           [c EXCEPT !.pc = "saved", !.plan = SaveComputed(c.plan)]
      [] c.pc = "saved" -> [c EXCEPT !.pc = "done"]
      [] OTHER -> c

\* ------------------------------------------------------------------------
\* What a DecimalField keeps of a value (two places, half-even)
\* ------------------------------------------------------------------------
RoundHalfEven(n, d) ==
    LET q == n \div d
        r == n % d
    IN  IF 2 * r < d THEN q
        ELSE IF 2 * r > d THEN q + 1
        ELSE IF q % 2 = 0 THEN q ELSE q + 1

StoredFraction(f) == [num |-> RoundHalfEven(f.num * 100, f.den), den |-> 100]

StoredPlan(p) ==
    [p EXCEPT !.down_payment_percentage = StoredFraction(@),
              !.installment_to_income_ratio = StoredFraction(@),
              !.maximum_allowed_installment = RoundHalfEven(@, 100) * 100]

\* ------------------------------------------------------------------------
\* Bounds of the model
\* ------------------------------------------------------------------------
ApcScores == {480, 520, 560, 620, 800}

PlanApcScores == {480, 560, 620}

Incomes == {0, 100000}

DevicePrices == {10000, 40000}

DownPaymentPcts == {0, 20, 25, 100}

Terms == {4, 8}

\* the engine is also run on an object whose selected_term is 0
EngineTerms == Terms \cup {0}

Frequencies == {15, 30}

\* the down payments of a request: the percentages above, 10% of the price
\* (below the minimum of every tier) and one cent more than 95% of the price
DownPayments(price) ==
    { (price * pct) \div 100 : pct \in DownPaymentPcts \cup {10} }
        \cup { (price * 95) \div 100 + 1 }

\* ------------------------------------------------------------------------
\* State
\* ------------------------------------------------------------------------
VARIABLES
    temp,       \* the AutoFinancePlan row of the credit application
    plans,      \* table finance_plans (rows of the one credit application)
    emis,       \* table emi_schedules
    results,    \* table decision_engine_results
    payments,   \* table payment_records
    today,      \* timezone.now().date()
    nextId,     \* next primary key of emi_schedules
    erun,       \* SpecEngine: the DecisionEngine.run in progress
    preq,       \* SpecPlan: the create-plan requests in progress
    payreq,     \* SpecPay: the payment requests in progress
    generated,  \* history: the schedule as the post_save signal generated it
    scores,     \* table credit_scores (rows of the one customer)
    config,     \* table credit_config: its rows, oldest first
    autoreq     \* SpecAuto: the pre-qualification requests answered so far

vars == <<temp, plans, emis, results, payments, today, nextId, erun, preq,
          payreq, generated, scores, config, autoreq>>

\* AutoFinancePlan.determine_risk_tier
AutoTierAMin == 600

AutoTierBMin == 550

AutoTierCMin == 500

AutoDetermineRiskTier(apc) ==
    IF apc >= AutoTierAMin THEN "TIER_A"
    ELSE IF apc >= AutoTierBMin THEN "TIER_B"
    ELSE IF apc >= AutoTierCMin THEN "TIER_C"
    ELSE "TIER_D"

\* AutoFinancePlan.get_tier_rules: the allowed terms, as listed
AutoAllowedTerms ==
    [TIER_A |-> <<4, 6, 8>>, TIER_B |-> <<6, 8>>, TIER_C |-> <<8>>,
     TIER_D |-> << >>]

Intervals == <<15, 30>>

\* the intervals as the outer loop
AllowedPlansIntervalMajor(terms) ==
    [i \in 1..(Len(terms) * Len(Intervals)) |->
        [months |-> terms[((i - 1) % Len(terms)) + 1],
         interval_days |-> Intervals[((i - 1) \div Len(terms)) + 1]]]

\* AutoDecisionEngine.run, step 4: for term in allowed_terms, for interval
\* in intervals
AllowedPlans(terms) ==
    [i \in 1..(Len(terms) * Len(Intervals)) |->
        [months |-> terms[((i - 1) \div Len(Intervals)) + 1],
         interval_days |-> Intervals[((i - 1) % Len(Intervals)) + 1]]]

\* The AutoFinancePlan row read by the create-plan view, as
\* AutoDecisionEngine.run saved it: maximum = income x k, kept to two places
AutoDecisionEngineRun(apc, income) ==
    LET rules == GetTierRules(AutoDetermineRiskTier(apc))
    IN  [apc_score |-> apc,
         risk_tier |-> AutoDetermineRiskTier(apc),
         customer_monthly_income |-> income,
         payment_capacity_factor |-> rules.payment_capacity_factor,
         maximum_allowed_installment |->
             RoundHalfEven(income * rules.payment_capacity_factor, 100) * 100,
         minimum_down_payment_percentage |-> rules.min_down_payment,
         allowed_plans |->
             AllowedPlans(AutoAllowedTerms[AutoDetermineRiskTier(apc)])]

\* finance_plan_data: the defaults handed to FinancePlan.objects.get_or_create
NewPlan(t, price, down, term, freq) ==
    [apc_score |-> t.apc_score,
     risk_tier |-> t.risk_tier,
     customer_monthly_income |-> t.customer_monthly_income,
     payment_capacity_factor |-> t.payment_capacity_factor,
     maximum_allowed_installment |-> t.maximum_allowed_installment,
     minimum_down_payment_percentage |-> t.minimum_down_payment_percentage,
     device_price |-> price,
     is_high_end_device |-> FALSE,
     actual_down_payment |-> down,
     selected_term |-> term,
     installment_frequency_days |-> freq,
     down_payment_percentage |-> [num |-> 0, den |-> 1],
     amount_to_finance |-> 0,
     monthly_installment |-> 0,
     total_amount_payable |-> 0,
     installment_to_income_ratio |-> [num |-> 0, den |-> 1],
     payment_capacity_passed |-> FALSE,
     conditions_met |-> FALSE,
     requires_adjustment |-> FALSE,
     adjustment_notes |-> << >>,
     final_score |-> NoScore,
     score_status |-> "NONE",
     allowed_terms |-> {}]

IdleRun == [pc |-> "idle", plan |-> [apc_score |-> 0], adjust_calls |-> 0,
            first_status |-> "NONE"]

StartRun(p) == [pc |-> "start", plan |-> p, adjust_calls |-> 0,
                first_status |-> "NONE"]

\* ------------------------------------------------------------------------
\* SpecEngine: one DecisionEngine(plan).run() on the FinancePlan object
\* get_or_create hands to the create-plan view: the object just created from
\* the AutoFinancePlan row and the request, or the row an earlier request
\* for the same credit application left
\* ------------------------------------------------------------------------
\* the row of the plan after the request that created it: the engine's
\* result saved twice, or the row as created when the run raised
RowAfterRequest(obj) ==
    CHOOSE row \in
        { IF c.pc = "raised" THEN StoredPlan(obj)
          ELSE StoredPlan(SaveComputed(c.plan)) :
            c \in {EngineStep(EngineStep(EngineStep(StartRun(obj))))} } : TRUE

InitEngine ==
    /\ \E apc \in ApcScores, income \in Incomes,
          price \in DevicePrices, term \in EngineTerms, existing \in BOOLEAN :
          \E down \in DownPayments(price) :
          \E obj \in {SaveComputed(
                         NewPlan(AutoDecisionEngineRun(apc, income), price, down,
                                 term, 30))} :
          /\ temp = AutoDecisionEngineRun(apc, income)
          /\ erun = StartRun(IF existing THEN RowAfterRequest(obj) ELSE obj)
    /\ plans = {}
    /\ emis = {}
    /\ results = {}
    /\ payments = {}
    /\ today = 0
    /\ nextId = 1
    /\ preq = << >>
    /\ payreq = << >>
    /\ generated = {}
    /\ scores = {}
    /\ config = << >>
    /\ autoreq = << >>

EngineScore ==
    /\ erun.pc = "start"
    /\ erun' = EngineStep(erun)
    /\ UNCHANGED <<temp, plans, emis, results, payments, today, nextId, preq, payreq, generated,
                   scores, config, autoreq>>

EngineAdjust ==
    /\ erun.pc = "scored"
    /\ erun' = EngineStep(erun)
    /\ UNCHANGED <<temp, plans, emis, results, payments, today, nextId, preq, payreq, generated,
                   scores, config, autoreq>>

EngineSave ==
    /\ erun.pc = "adjusted"
    /\ erun' = EngineStep(erun)
    /\ plans' = {StoredPlan(erun'.plan)}
    /\ UNCHANGED <<temp, emis, results, payments, today, nextId, preq, payreq, generated,
                   scores, config, autoreq>>

EngineSaveResult ==
    /\ erun.pc = "saved"
    /\ erun' = EngineStep(erun)
    /\ results' = {DecisionResult(erun.plan)}
    /\ UNCHANGED <<temp, plans, emis, payments, today, nextId, preq, payreq, generated,
                   scores, config, autoreq>>

NextEngine == EngineScore \/ EngineAdjust \/ EngineSave \/ EngineSaveResult

SpecEngine == InitEngine /\ [][NextEngine]_vars

\* ------------------------------------------------------------------------
\* Dates: days since 1 January of a non-leap year; relativedelta(months=k)
\* ------------------------------------------------------------------------
MonthLengths == <<31, 28, 31, 30, 31, 30, 31, 31, 30, 31, 30, 31>>

RECURSIVE DaysBeforeMonth(_)
DaysBeforeMonth(m) ==
    IF m = 1 THEN 0 ELSE DaysBeforeMonth(m - 1) + MonthLengths[m - 1]

MonthOf(doy) ==
    CHOOSE m \in 1..12 :
        DaysBeforeMonth(m) <= doy /\ doy < DaysBeforeMonth(m) + MonthLengths[m]

AddMonths(d, k) ==
    LET y == d \div 365
        doy == d % 365
        m == MonthOf(doy)
        dom == doy - DaysBeforeMonth(m) + 1
        total == (m - 1) + k
        y2 == y + total \div 12
        m2 == (total % 12) + 1
        dom2 == Min2(dom, MonthLengths[m2])
    IN  y2 * 365 + DaysBeforeMonth(m2) + dom2 - 1

NoDate == 0 - 1

\* ------------------------------------------------------------------------
\* EMISchedule rows and schedule generation
\* ------------------------------------------------------------------------
EmiRow(id, number, due, amount) ==
    [id |-> id, installment_number |-> number, due_date |-> due,
     installment_amount |-> amount, amount_paid |-> 0,
     balance_remaining |-> amount, status |-> "UPCOMING",
     paid_date |-> NoDate, days_overdue |-> 0]

\* generate_schedule (15-day plans): fixed 15-day steps
GenerateSchedule(p, first_due, id0) ==
    { EmiRow(id0 + i - 1, i, first_due + (i - 1) * 15, p.monthly_installment) :
        i \in 1..p.selected_term }

\* generate_schedule_emi (all other plans): calendar months
GenerateScheduleEmi(p, first_due, id0) ==
    { EmiRow(id0 + i - 1, i, AddMonths(first_due, i - 1), p.monthly_installment) :
        i \in 1..p.selected_term }

\* the signal with the 15-day generator for every frequency
CreateEmiScheduleFixedSteps(p, rows, day, id0) ==
    IF rows # {} THEN {}
    ELSE GenerateSchedule(p, day + FirstDueOffsetDays, id0)

\* create_emi_schedule (post_save): only for a created plan without rows
CreateEmiSchedule(p, rows, day, id0) ==
    IF rows # {} THEN {}
    ELSE IF p.installment_frequency_days = 15
         THEN GenerateSchedule(p, day + FirstDueOffsetDays, id0)
         ELSE GenerateScheduleEmi(p, day + FirstDueOffsetDays, id0)

Numbers(rows) == { e.installment_number : e \in rows }

\* ------------------------------------------------------------------------
\* SpecPlan: FinancePlanAPIView.post for the one credit application, up to
\* MaxRequests requests in flight.  The AutoFinancePlan row is the one
\* AutoDecisionEngine.run left (maximum = income x k).
\* ------------------------------------------------------------------------
MaxRequests == 2

Reqs == 1..MaxRequests

\* after_decision (history): the request found the plan as a finished
\* creating request had left it
IdleRequest == [pc |-> "idle", created |-> FALSE, term |-> 0,
                run |-> IdleRun, response |-> "none",
                after_decision |-> FALSE]

DecisionPersisted ==
    \E q \in DOMAIN preq :
        preq[q].created /\ preq[q].pc = "done" /\ preq[q].run.pc = "done"

InitPlan ==
    /\ \E apc \in PlanApcScores, income \in Incomes :
          temp = AutoDecisionEngineRun(apc, income)
    /\ today = 0
    /\ plans = {}
    /\ emis = {}
    /\ results = {}
    /\ payments = {}
    /\ nextId = 1
    /\ erun = IdleRun
    /\ preq = [r \in Reqs |-> IdleRequest]
    /\ payreq = << >>
    /\ generated = {}
    /\ scores = {}
    /\ config = << >>
    /\ autoreq = << >>

\* Steps 1-8 of DecisionEngine.run read and write nothing but the request's
\* own plan object: no other worker can observe them or change what they
\* compute, so they are taken as soon as the object is loaded and the
\* other steps wait for them.
Computing ==
    \E q \in Reqs : preq[q].pc = "engine" /\ preq[q].run.pc = "start"

\* FinancePlan.objects.get_or_create(credit_application=..., defaults=...):
\* the INSERT, FinancePlan.save and the post_save signal run in one atomic
\* block; an existing row is returned as stored.  The workers are
\* interchangeable: the requests are numbered in the order in which they
\* arrive.
PlanGetOrCreate(r) ==
    /\ ~Computing
    /\ preq[r].pc = "idle"
    /\ \A q \in Reqs : q < r => preq[q].pc # "idle"
    /\ \E price \in DevicePrices, pct \in DownPaymentPcts, term \in Terms,
          freq \in Frequencies :
          IF plans = {}
          THEN \E obj \in {SaveComputed(
                   NewPlan(temp, price, (price * pct) \div 100, term, freq))} :
               \E rows \in {CreateEmiSchedule(obj, emis, today, nextId)} :
                   /\ plans' = {StoredPlan(obj)}
                   /\ emis' = emis \cup rows
                   /\ nextId' = nextId + Cardinality(rows)
                   /\ generated' = rows
                   /\ preq' = [preq EXCEPT ![r] =
                                 [@ EXCEPT !.pc = "engine", !.created = TRUE,
                                           !.term = term, !.run = StartRun(obj)]]
          ELSE /\ preq' = [preq EXCEPT ![r] =
                             [@ EXCEPT !.pc = "engine", !.created = FALSE,
                                       !.term = term,
                                       !.after_decision = DecisionPersisted,
                                       !.run = StartRun(CHOOSE row \in plans : TRUE)]]
               /\ UNCHANGED <<plans, emis, nextId, generated>>
    /\ UNCHANGED <<temp, results, payments, today, erun, payreq, scores, config, autoreq>>

\* DecisionEngine.run, steps 1-8, on the request's plan object (no shared
\* state is read or written before self.plan.save())
PlanRun(r) ==
    /\ preq[r].pc = "engine" /\ preq[r].run.pc = "start"
    /\ \E c \in {Then(EngineStep(preq[r].run), EngineStep)} :
           preq' = [preq EXCEPT ![r] =
                      IF c.pc = "raised"
                      THEN [@ EXCEPT !.pc = "done", !.run = c,
                                     !.response = "error_500"]
                      ELSE [@ EXCEPT !.run = c]]
    /\ UNCHANGED <<temp, plans, emis, results, payments, today, nextId, erun, payreq, generated,
                   scores, config, autoreq>>

\* DecisionEngine.run: self.plan.save() (UPDATE of the whole row; the
\* post_save signal does nothing when created is false)
PlanSave(r) ==
    /\ ~Computing
    /\ preq[r].pc = "engine" /\ preq[r].run.pc = "adjusted"
    /\ \E c \in {EngineStep(preq[r].run)} :
           /\ preq' = [preq EXCEPT ![r] = [@ EXCEPT !.run = c]]
           /\ plans' = {StoredPlan(c.plan)}
    /\ UNCHANGED <<temp, emis, results, payments, today, nextId, erun, payreq, generated,
                   scores, config, autoreq>>

\* DecisionEngine.run: save_decision_result (update_or_create)
PlanSaveResult(r) ==
    /\ ~Computing
    /\ preq[r].pc = "engine" /\ preq[r].run.pc = "saved"
    /\ preq' = [preq EXCEPT ![r] =
                  [@ EXCEPT !.pc = "final_save", !.run = EngineStep(@)]]
    /\ results' = {DecisionResult(preq[r].run.plan)}
    /\ UNCHANGED <<temp, plans, emis, payments, today, nextId, erun, payreq, generated,
                   scores, config, autoreq>>

\* the view: final_plan.save()
PlanFinalSave(r) ==
    /\ ~Computing
    /\ preq[r].pc = "final_save"
    /\ \E p \in {SaveComputed(preq[r].run.plan)} :
           /\ preq' = [preq EXCEPT ![r] =
                         [@ EXCEPT !.pc = "audit", !.run = [@ EXCEPT !.plan = p]]]
           /\ plans' = {StoredPlan(p)}
    /\ UNCHANGED <<temp, emis, results, payments, today, nextId, erun, payreq, generated,
                   scores, config, autoreq>>

\* the view: AuditLog.objects.create(action=..., entity_id=..., entity_type=...)
\* names no field of finance.models.AuditLog, so Model.__init__ raises
\* TypeError and the handler answers 500 with everything above committed
PlanAudit(r) ==
    /\ ~Computing
    /\ preq[r].pc = "audit"
    /\ preq' = [preq EXCEPT ![r] = [@ EXCEPT !.pc = "done",
                                             !.response = "error_500"]]
    /\ UNCHANGED <<temp, plans, emis, results, payments, today, nextId, erun, payreq, generated,
                   scores, config, autoreq>>

NextPlan ==
    \E r \in Reqs :
        \/ PlanGetOrCreate(r)
        \/ PlanRun(r)
        \/ PlanSave(r)
        \/ PlanSaveResult(r)
        \/ PlanFinalSave(r)
        \/ PlanAudit(r)

SpecPlan == InitPlan /\ [][NextPlan]_vars

\* ------------------------------------------------------------------------
\* SpecPay: MaxPaySlots payment requests on the schedule of the one plan,
\* each through the EMI payment endpoint or through the payment-record
\* serializer, in any interleaving, and a clock
\* ------------------------------------------------------------------------
MaxPaySlots == 2

MaxDay == 31

PaySlots == 1..MaxPaySlots

DaySteps == {31}

PayAmounts == {4000, 9000}

PayApcScores == {800}

\* the installments the payment requests name
PayTargets == {1, 3}

Targets(rows) == { e \in rows : e.installment_number \in PayTargets }

PaymentStatuses == {"COMPLETED"}

\* update_status without the branch for a part payment
UpdateStatusNoPartial(e, day) ==
    IF e.amount_paid >= e.installment_amount
    THEN [e EXCEPT !.status = "PAID", !.balance_remaining = 0]
    ELSE IF day > e.due_date
    THEN [e EXCEPT !.status = "OVERDUE",
                   !.days_overdue = day - e.due_date,
                   !.balance_remaining = e.installment_amount]
    ELSE IF day = e.due_date
    THEN [e EXCEPT !.status = "DUE",
                   !.balance_remaining = e.installment_amount]
    ELSE [e EXCEPT !.status = "UPCOMING",
                   !.balance_remaining = e.installment_amount]

\* EMISchedule.update_status, evaluated on day `day`
UpdateStatus(e, day) ==
    IF e.amount_paid >= e.installment_amount
    THEN [e EXCEPT !.status = "PAID", !.balance_remaining = 0]
    ELSE IF e.amount_paid > 0
    THEN [e EXCEPT !.status = "PARTIALLY_PAID",
                   !.balance_remaining = e.installment_amount - e.amount_paid]
    ELSE IF day > e.due_date
    THEN [e EXCEPT !.status = "OVERDUE",
                   !.days_overdue = day - e.due_date,
                   !.balance_remaining = e.installment_amount]
    ELSE IF day = e.due_date
    THEN [e EXCEPT !.status = "DUE",
                   !.balance_remaining = e.installment_amount]
    ELSE [e EXCEPT !.status = "UPCOMING",
                   !.balance_remaining = e.installment_amount]

\* the endpoint: amount_paid += amount; update_status(); paid_date = today
EndpointApply(e, amount, day) ==
    [UpdateStatus([e EXCEPT !.amount_paid = @ + amount], day)
        EXCEPT !.paid_date = day]

\* PaymentRecord.apply_to_emi: paid_date only when the installment is PAID
ApplyToEmi(e, amount, day) ==
    LET u == UpdateStatus([e EXCEPT !.amount_paid = @ + amount], day)
    IN  IF u.status = "PAID" THEN [u EXCEPT !.paid_date = day] ELSE u

\* the endpoint's late check
IsLate(e) == e.due_date < e.paid_date

\* the filter without .exclude(status='PAID')
FutureEmisWithPaid(rows, k) == { e \in rows : e.installment_number > k }

\* plan.emi_schedule.filter(installment_number__gt=k).exclude(status='PAID')
FutureEmis(rows, k) ==
    { e \in rows : e.installment_number > k /\ e.status # "PAID" }

\* next_emi_date and the step of generate_future_emis
NextEmiDate(d) == d + RescheduleGapDays

Ids(rows) == { e.id : e \in rows }

\* Model.save(): UPDATE of the whole row by primary key, INSERT when the row
\* is gone; the INSERT fails on unique_together(finance_plan, installment_number)
SaveRaises(rows, e) ==
    /\ e.id \notin Ids(rows)
    /\ e.installment_number \in Numbers(rows)

SaveRow(rows, e) == { x \in rows : x.id # e.id } \cup {e}

\* on_delete=SET_NULL of PaymentRecord.emi_schedule
SetNull(pays, ids) ==
    { IF x.emi_schedule \in ids THEN [x EXCEPT !.emi_schedule = 0] ELSE x :
        x \in pays }

\* a PaymentRecord row; its primary key is drawn per request
PaymentRow(id, e, amount, st, day) ==
    [id |-> id, emi_schedule |-> e.id, payment_amount |-> amount,
     payment_status |-> st, payment_date |-> day]

IdlePay ==
    [pc |-> "idle", path |-> "none", emi |-> EmiRow(0, 0, 0, 0), amount |-> 0,
     payment_status |-> "NONE", status_at_load |-> "NONE", payment |-> 0,
     payment_date |-> 0,
     applied |-> FALSE, next_number |-> 0, next_date |-> 0,
     response |-> "none"]

ThePlan == CHOOSE p \in plans : TRUE

\* the database after one create-plan request (term 4, price 400.00, down
\* payment 80.00) has run to its end on day 0
InitPay ==
    /\ \E apc \in PayApcScores, freq \in Frequencies :
          LET t == AutoDecisionEngineRun(apc, 100000)
              obj == SaveComputed(NewPlan(t, 40000, 8000, 4, freq))
              c == EngineStep(EngineStep(EngineStep(StartRun(obj))))
              rows == CreateEmiSchedule(obj, {}, 0, 1)
          IN  /\ temp = t
              /\ plans = {StoredPlan(SaveComputed(c.plan))}
              /\ results = {DecisionResult(c.plan)}
              /\ emis = rows
              /\ generated = rows
              /\ nextId = 1 + Cardinality(rows)
    /\ payments = {}
    /\ today = 0
    /\ erun = IdleRun
    /\ preq = << >>
    /\ payreq = [r \in PaySlots |-> IdlePay]
    /\ scores = {}
    /\ config = << >>
    /\ autoreq = << >>

\* the handler returns: its locals are gone, the response and what it did
\* are kept
Done(q, resp) ==
    [q EXCEPT !.pc = "done", !.response = resp,
              !.emi = EmiRow(q.emi.id, q.emi.installment_number, 0, 0),
              !.next_number = 0, !.next_date = 0, !.payment_date = 0]

\* the workers are interchangeable: the requests are numbered in the order
\* in which they arrive
NextToArrive(r) == \A q \in PaySlots : q < r => payreq[q].pc # "idle"

\* FinanceInstallmentPaymentView.post: EMISchedule.objects.get and the PAID
\* check
EndpointLoad(r) ==
    /\ payreq[r].pc = "idle"
    /\ NextToArrive(r)
    /\ \E e \in Targets(emis), amount \in PayAmounts :
          LET q == [IdlePay EXCEPT !.path = "endpoint", !.emi = e,
                                   !.amount = amount,
                                   !.payment_status = "COMPLETED",
                                   !.status_at_load = e.status]
          IN  payreq' = [payreq EXCEPT ![r] =
                            IF e.status = "PAID"
                            THEN Done(q, "already_paid")
                            ELSE [q EXCEPT !.pc = "create"]]
    /\ UNCHANGED <<temp, plans, emis, results, payments, today, nextId, erun,
                   preq, generated, scores, config, autoreq>>

\* PaymentRecord.objects.create(...): the foreign key needs the row to exist
EndpointCreatePayment(r) ==
    /\ payreq[r].pc = "create"
    /\ IF payreq[r].emi.id \in Ids(emis)
       THEN /\ payments' = payments \cup
                  {PaymentRow(r, payreq[r].emi, payreq[r].amount, "COMPLETED",
                              today)}
            /\ payreq' = [payreq EXCEPT ![r] =
                            [@ EXCEPT !.pc = "update", !.payment = r,
                                      !.payment_date = today]]
       ELSE /\ payreq' = [payreq EXCEPT ![r] = Done(@, "error_500")]
            /\ UNCHANGED payments
    /\ UNCHANGED <<temp, plans, emis, results, today, nextId, erun, preq,
                   generated, scores, config, autoreq>>

\* emi.amount_paid += amount_paid; emi.update_status(); emi.paid_date = today;
\* emi.save(); then the late check
EndpointUpdateEmi(r) ==
    /\ payreq[r].pc = "update"
    /\ LET e == EndpointApply(payreq[r].emi, payreq[r].amount, today)
       IN  IF SaveRaises(emis, e)
           THEN /\ payreq' = [payreq EXCEPT ![r] =
                                Done([@ EXCEPT !.emi = e], "error_500")]
                /\ UNCHANGED emis
           ELSE /\ emis' = SaveRow(emis, e)
                /\ payreq' = [payreq EXCEPT ![r] =
                                IF IsLate(e)
                                THEN [@ EXCEPT !.pc = "delete", !.emi = e,
                                               !.applied = TRUE]
                                ELSE Done([@ EXCEPT !.emi = e,
                                                    !.applied = TRUE], "ok")]
    /\ UNCHANGED <<temp, plans, results, payments, today, nextId, erun, preq,
                   generated, scores, config, autoreq>>

\* future_emis.delete(), and the arguments of generate_future_emis
EndpointDeleteFuture(r) ==
    /\ payreq[r].pc = "delete"
    /\ LET k == payreq[r].emi.installment_number
           gone == FutureEmis(emis, k)
       IN  /\ emis' = emis \ gone
           /\ payments' = SetNull(payments, Ids(gone))
           /\ payreq' = [payreq EXCEPT ![r] =
                 IF k + 1 > ThePlan.selected_term
                 THEN Done(@, "ok")
                 ELSE [@ EXCEPT !.pc = "regen", !.next_number = k + 1,
                                !.next_date = NextEmiDate(payreq[r].emi.paid_date)]]
    /\ UNCHANGED <<temp, plans, results, today, nextId, erun, preq, generated,
                   scores, config, autoreq>>

\* generate_future_emis: one EMISchedule.objects.create per turn of the loop
EndpointRegenerate(r) ==
    /\ payreq[r].pc = "regen"
    /\ LET n == payreq[r].next_number
       IN  IF n \in Numbers(emis)
           THEN /\ payreq' = [payreq EXCEPT ![r] = Done(@, "error_500")]
                /\ UNCHANGED <<emis, nextId>>
           ELSE /\ emis' = emis \cup
                      {EmiRow(nextId, n, payreq[r].next_date,
                              ThePlan.monthly_installment)}
                /\ nextId' = nextId + 1
                /\ payreq' = [payreq EXCEPT ![r] =
                      IF n + 1 > ThePlan.selected_term
                      THEN Done(@, "ok")
                      ELSE [@ EXCEPT !.next_number = n + 1,
                                     !.next_date = NextEmiDate(@)]]
    /\ UNCHANGED <<temp, plans, results, payments, today, erun, preq, generated,
                   scores, config, autoreq>>

\* PaymentRecordSerializer.create: EMISchedule.objects.get
SerializerLoad(r) ==
    /\ payreq[r].pc = "idle"
    /\ NextToArrive(r)
    /\ \E e \in Targets(emis), amount \in PayAmounts, st \in PaymentStatuses :
          payreq' = [payreq EXCEPT ![r] =
                       [IdlePay EXCEPT !.pc = "s_create", !.path = "serializer",
                                       !.emi = e, !.amount = amount,
                                       !.payment_status = st,
                                       !.status_at_load = e.status]]
    /\ UNCHANGED <<temp, plans, emis, results, payments, today, nextId, erun,
                   preq, generated, scores, config, autoreq>>

\* PaymentRecordSerializer.create: PaymentRecord.objects.create; the request
\* carries the current time as payment_date
SerializerCreatePayment(r) ==
    /\ payreq[r].pc = "s_create"
    /\ IF payreq[r].emi.id \in Ids(emis)
       THEN /\ payments' = payments \cup
                  {PaymentRow(r, payreq[r].emi, payreq[r].amount,
                              payreq[r].payment_status, today)}
            /\ payreq' = [payreq EXCEPT ![r] =
                  IF payreq[r].payment_status = "COMPLETED"
                  THEN [@ EXCEPT !.pc = "s_apply", !.payment = r,
                                 !.payment_date = today]
                  ELSE Done([@ EXCEPT !.payment = r], "created")]
       ELSE /\ payreq' = [payreq EXCEPT ![r] = Done(@, "error_500")]
            /\ UNCHANGED payments
    /\ UNCHANGED <<temp, plans, emis, results, today, nextId, erun, preq,
                   generated, scores, config, autoreq>>

\* PaymentRecordSerializer.create: payment.apply_to_emi()
SerializerApply(r) ==
    /\ payreq[r].pc = "s_apply"
    /\ LET e == ApplyToEmi(payreq[r].emi, payreq[r].amount,
                           payreq[r].payment_date)
       IN  IF SaveRaises(emis, e)
           THEN /\ payreq' = [payreq EXCEPT ![r] =
                                Done([@ EXCEPT !.emi = e], "error_500")]
                /\ UNCHANGED emis
           ELSE /\ emis' = SaveRow(emis, e)
                /\ payreq' = [payreq EXCEPT ![r] =
                                Done([@ EXCEPT !.emi = e, !.applied = TRUE],
                                     "created")]
    /\ UNCHANGED <<temp, plans, results, payments, today, nextId, erun, preq,
                   generated, scores, config, autoreq>>

\* timezone.now() moves on
AdvanceDay ==
    /\ \E d \in DaySteps :
          /\ today + d <= MaxDay
          /\ today' = today + d
    /\ UNCHANGED <<temp, plans, emis, results, payments, nextId, erun, preq,
                   payreq, generated, scores, config, autoreq>>

NextPay ==
    \/ AdvanceDay
    \/ \E r \in PaySlots :
          \/ EndpointLoad(r)
          \/ EndpointCreatePayment(r)
          \/ EndpointUpdateEmi(r)
          \/ EndpointDeleteFuture(r)
          \/ EndpointRegenerate(r)
          \/ SerializerLoad(r)
          \/ SerializerCreatePayment(r)
          \/ SerializerApply(r)

SpecPay == InitPay /\ [][NextPay]_vars

\* ------------------------------------------------------------------------
\* SpecAuto: the credit score of the one customer, the configuration row and
\* the pre-qualification requests (AutoFinancePlanView.post), with the clock
\* ------------------------------------------------------------------------
MaxScores == 2

MaxAutoRequests == 2

ScoreValidityDays == 30

AutoApcScores == {480, 620}

ConfigValues == { <<650, 600, 550>>, <<580, 540, 480>> }

NoAutoPlan ==
    [apc_score |-> 0, risk_tier |-> "", customer_monthly_income |-> 0,
     payment_capacity_factor |-> 0, maximum_allowed_installment |-> 0,
     minimum_down_payment_percentage |-> 0, allowed_plans |-> << >>]

ConfigRow(t) ==
    [tier_a_min_score |-> t[1], tier_b_min_score |-> t[2],
     tier_c_min_score |-> t[3]]

InitAuto ==
    /\ temp = NoAutoPlan
    /\ scores = {}
    /\ config = << >>
    /\ autoreq = << >>
    /\ today = 0
    /\ plans = {}
    /\ emis = {}
    /\ results = {}
    /\ payments = {}
    /\ nextId = 1
    /\ erun = IdleRun
    /\ preq = << >>
    /\ payreq = << >>
    /\ generated = {}

\* CreditScore.save: validity of 30 days when none is given, and the flag
\* is_expired as of the moment of the save
CreditScoreSave(row, day) ==
    LET until == IF row.score_valid_until = NoDate
                 THEN day + ScoreValidityDays ELSE row.score_valid_until
    IN  [row EXCEPT !.score_valid_until = until, !.is_expired = (day > until)]

\* Customer.get_latest_credit_score: the newest row still within validity
GetLatestCreditScore(rows, day) ==
    { s \in rows : /\ s.score_valid_until >= day
                   /\ \A o \in rows :
                         o.score_valid_until >= day => o.created_at <= s.created_at }

\* CreditScoreCheckAPIView.get: nothing is written while a row is within
\* validity; otherwise the bureau is asked and its answer is saved on the row
\* of the same consultation, or on a new row
CreditScoreCheck ==
    /\ GetLatestCreditScore(scores, today) = {}
    /\ \E apc \in AutoApcScores :
          \/ \E old \in scores :
                scores' = (scores \ {old}) \cup
                    {CreditScoreSave(
                        [old EXCEPT !.apc_score = apc,
                                    !.score_valid_until = today + ScoreValidityDays],
                        today)}
          \/ /\ Cardinality(scores) < MaxScores
             /\ scores' = scores \cup
                    {CreditScoreSave(
                        [id |-> Cardinality(scores) + 1, apc_score |-> apc,
                         score_valid_until |-> today + ScoreValidityDays,
                         is_expired |-> FALSE, created_at |-> today],
                        today)}
    /\ UNCHANGED <<temp, plans, emis, results, payments, today, nextId, erun,
                   preq, payreq, generated, config, autoreq>>

\* CreditConfigChangeAPIView.post: one row at most
CreditConfigPost ==
    /\ config = << >>
    /\ \E t \in ConfigValues : config' = <<ConfigRow(t)>>
    /\ UNCHANGED <<temp, plans, emis, results, payments, today, nextId, erun,
                   preq, payreq, generated, scores, autoreq>>

\* CreditConfigChangeAPIView.patch: the first row is rewritten (the
\* serializer, given no instance, creates the row)
CreditConfigPatch ==
    /\ \E t \in ConfigValues :
          config' = IF config = << >> THEN <<ConfigRow(t)>>
                    ELSE [config EXCEPT ![1] = ConfigRow(t)]
    /\ UNCHANGED <<temp, plans, emis, results, payments, today, nextId, erun,
                   preq, payreq, generated, scores, autoreq>>

\* the arguments of self.plan.determine_risk_tier(a, b, c)
ThresholdArgs(cfg) ==
    <<cfg[Len(cfg)].tier_a_min_score, cfg[Len(cfg)].tier_b_min_score,
      cfg[Len(cfg)].tier_c_min_score>>

\* thresholds determine_risk_tier(self) accepts
TierThresholdParams == 0

\* the try block of step 1 raises: CreditConfig.objects.last() is None
\* (AttributeError), or determine_risk_tier is handed more arguments than
\* it takes (TypeError)
ThresholdCallRaises(cfg) ==
    cfg = << >> \/ Len(ThresholdArgs(cfg)) > TierThresholdParams

\* AutoDecisionEngine.run, step 1: the bare except calls
\* determine_risk_tier() whenever the try block raised
AutoEngineRun(cfg, apc, income) ==
    CASE ThresholdCallRaises(cfg) -> AutoDecisionEngineRun(apc, income)

\* the newest row with is_expired = False, as stored
ActiveScore(rows) ==
    { s \in rows : /\ ~s.is_expired
                   /\ \A o \in rows : ~o.is_expired => o.created_at <= s.created_at }

\* the object run returns: maximum_allowed_installment as computed (four
\* places), not yet as the column keeps it
AutoEngineOut(row) ==
    [row EXCEPT !.maximum_allowed_installment =
                    row.customer_monthly_income * row.payment_capacity_factor]

\* the answer: the data of the 201 response, with the day, the validity of
\* the score used and the thresholds configured (history)
AutoAnswer(resp, day, until, apc, out) ==
    [response |-> resp, day |-> day, score_valid_until |-> until,
     apc_score |-> apc, risk_tier |-> out.risk_tier,
     monthly_income |-> out.customer_monthly_income,
     maximum_allowed_installment |-> out.maximum_allowed_installment,
     minimum_down_payment_percentage |-> out.minimum_down_payment_percentage,
     allowed_plans |-> out.allowed_plans,
     thresholds |-> config]

\* AutoFinancePlanView.post: the score lookup, update_or_create of the
\* AutoFinancePlan row and AutoDecisionEngine.run
AutoPost ==
    /\ Len(autoreq) < MaxAutoRequests
    /\ IF ActiveScore(scores) = {}
       THEN /\ autoreq' = Append(autoreq,
                              AutoAnswer("no_active_score", today, NoDate, 0,
                                         NoAutoPlan))
            /\ UNCHANGED temp
       ELSE \E s \in ActiveScore(scores), income \in Incomes :
               /\ temp' = AutoEngineRun(config, s.apc_score, income)
               /\ autoreq' = Append(autoreq,
                                 AutoAnswer("created", today, s.score_valid_until,
                                            s.apc_score, AutoEngineOut(temp')))
    /\ UNCHANGED <<plans, emis, results, payments, today, nextId, erun, preq,
                   payreq, generated, scores, config>>

NextAuto ==
    \/ CreditScoreCheck
    \/ CreditConfigPost
    \/ CreditConfigPatch
    \/ AutoPost
    \/ AdvanceDay

SpecAuto == InitAuto /\ [][NextAuto]_vars

\* ------------------------------------------------------------------------
\* SpecCalc: one method of FinancePlan (or AutoFinancePlan) called on an
\* object in memory whose fields are drawn from the sets below
\* ------------------------------------------------------------------------
CalcApcScores == {350, 499, 500, 549, 550, 599, 600, 800, 900}

CalcAmounts == {0, 1, 8000, 8001}

CalcTerms == {0, 1, 3, 8}

CalcMaximums == {0, 300000, 1500000}

CalcEmis == {0, 7500, 40000}

CalcSignals == {0, 100}

CalcObject(apc, amount, term, maxi, emi) ==
    [NewPlan(AutoDecisionEngineRun(apc, 0), 0, 0, term, 30)
        EXCEPT !.amount_to_finance = amount,
               !.maximum_allowed_installment = maxi,
               !.monthly_installment = emi]

\* an EMISchedule object: as generated, or as an earlier partial payment left
\* it, with the amount of the payment at hand added to amount_paid
CalcInstallmentAmounts == {0, 8000}

CalcPaidBefore == {0, 4000}

CalcPayments == {0, 4000, 9000}

CalcDueDates == {30}

CalcDays == {0, 30, 31, 61}

CalcInstallment(amount, due, before, payment) ==
    [(IF before = 0 THEN EmiRow(1, 1, due, amount)
      ELSE [EmiRow(1, 1, due, amount)
               EXCEPT !.amount_paid = before, !.status = "PARTIALLY_PAID",
                      !.balance_remaining = amount - before])
        EXCEPT !.amount_paid = @ + payment]

InitCalc ==
    /\ \/ /\ \E apc \in CalcApcScores, amount \in CalcAmounts,
                term \in CalcTerms, maxi \in CalcMaximums, emi \in CalcEmis,
                b \in CalcSignals, r \in CalcSignals, g \in CalcSignals :
                erun = [pc |-> "input",
                        plan |-> CalcObject(apc, amount, term, maxi, emi),
                        adjust_calls |-> 0, first_status |-> "NONE",
                        signals |-> <<b, r, g>>]
          /\ today = 0
          /\ emis = {}
       \/ /\ erun = [pc |-> "installment", plan |-> CalcObject(0, 0, 0, 0, 0),
                      adjust_calls |-> 0, first_status |-> "NONE",
                      signals |-> <<0, 0, 0>>]
          /\ today \in CalcDays
          /\ \E amount \in CalcInstallmentAmounts, due \in CalcDueDates,
                before \in CalcPaidBefore, payment \in CalcPayments :
                /\ before < amount \/ before = 0
                /\ emis = {CalcInstallment(amount, due, before, payment)}
    /\ temp = NoAutoPlan
    /\ scores = {}
    /\ config = << >>
    /\ autoreq = << >>
    /\ plans = {}
    /\ results = {}
    /\ payments = {}
    /\ nextId = 1
    /\ preq = << >>
    /\ payreq = << >>
    /\ generated = {}

\* FinancePlan.determine_risk_tier()
CalcTier ==
    /\ erun.pc = "input"
    /\ erun' = [erun EXCEPT !.pc = "tier",
                            !.plan.risk_tier = DetermineRiskTier(erun.plan.apc_score)]
    /\ UNCHANGED <<temp, plans, emis, results, payments, today, nextId, preq,
                   payreq, generated, scores, config, autoreq>>

\* AutoFinancePlan.determine_risk_tier()
CalcAutoTier ==
    /\ erun.pc = "input"
    /\ erun' = [erun EXCEPT !.pc = "auto_tier",
                            !.plan.risk_tier =
                                AutoDetermineRiskTier(erun.plan.apc_score)]
    /\ UNCHANGED <<temp, plans, emis, results, payments, today, nextId, preq,
                   payreq, generated, scores, config, autoreq>>

\* FinancePlan.calculate_emi()
CalcEmi ==
    /\ erun.pc = "input"
    /\ erun' = [erun EXCEPT !.pc = "emi", !.plan = CalculateEmi(erun.plan)]
    /\ UNCHANGED <<temp, plans, emis, results, payments, today, nextId, preq,
                   payreq, generated, scores, config, autoreq>>

\* FinancePlan.calculate_final_score(biometric, references, geo)
CalcScore ==
    /\ erun.pc = "input"
    /\ erun' = [erun EXCEPT !.pc = "score",
                            !.plan = CalculateFinalScore(erun.plan,
                                         erun.signals[1], erun.signals[2],
                                         erun.signals[3])]
    /\ UNCHANGED <<temp, plans, emis, results, payments, today, nextId, preq,
                   payreq, generated, scores, config, autoreq>>

\* EMISchedule.update_status() on the day `today`
CalcUpdateStatus ==
    /\ erun.pc = "installment"
    /\ erun' = [erun EXCEPT !.pc = "status"]
    /\ emis' = { UpdateStatus(e, today) : e \in emis }
    /\ UNCHANGED <<temp, plans, results, payments, today, nextId, preq,
                   payreq, generated, scores, config, autoreq>>

NextCalc == CalcTier \/ CalcAutoTier \/ CalcEmi \/ CalcScore \/ CalcUpdateStatus

SpecCalc == InitCalc /\ [][NextCalc]_vars

\* ------------------------------------------------------------------------
\* Claims on the decision engine and the create-plan flow
\* ------------------------------------------------------------------------
Quiet == \A r \in Reqs : preq[r].pc \in {"idle", "done"}

TermAllowed(term) == term \in GetTierRules(temp.risk_tier).allowed_terms

C8_AdjustOnceAndRunEnds ==
    /\ erun.adjust_calls <= 1
    /\ erun.adjust_calls = 1 => erun.first_status = "CONDITIONAL"
    /\ erun.pc # "raised"
    /\ erun.pc = "done" =>
          /\ \A p \in plans : p.score_status = erun.plan.score_status
          /\ \A d \in results : d.final_decision = erun.plan.score_status
          /\ plans # {} /\ results # {}

\* C9: a run on a plan whose bureau score is below 500 ends with tier D,
\* the capacity check and the conditions failed and status REJECTED, for
\* every income, price, down payment, term and stored maximum the flow
\* produces, and the decision record says REJECTED.
C9_BelowFiveHundredRejected ==
    \A r \in Reqs :
        (preq[r].run.pc = "done" /\ preq[r].run.plan.apc_score < 500) =>
            /\ preq[r].run.plan.risk_tier = "TIER_D"
            /\ preq[r].run.plan.payment_capacity_passed = FALSE
            /\ preq[r].run.plan.conditions_met = FALSE
            /\ preq[r].run.plan.score_status = "REJECTED"
            /\ results # {}
            /\ \A d \in results : d.final_decision = "REJECTED"

\* a repeated request whose run on the stored tier D row has ended, the
\* device fully paid down (EMI 0)
C9_Witness ==
    \E r \in Reqs :
        /\ preq[r].run.pc = "done"
        /\ ~preq[r].created
        /\ preq[r].run.plan.apc_score < 500
        /\ preq[r].run.plan.customer_monthly_income > 0
        /\ preq[r].run.plan.monthly_installment = 0

\* C10: a request whose selected term is not allowed for the tier ends with
\* an invalid-term error and leaves no plan, schedule or decision record.
C10_InvalidTermCreatesNothing ==
    \A r \in Reqs :
        (preq[r].pc # "idle" /\ ~TermAllowed(preq[r].term)) =>
            /\ ~preq[r].created
            /\ preq[r].pc = "done" => preq[r].response = "invalid_term"
            /\ (\A q \in Reqs \ {r} : preq[q].pc = "idle") =>
                   plans = {} /\ emis = {} /\ results = {}

\* C14: every plan that DecisionEngine.run leaves REJECTED or CONDITIONAL
\* carries non-empty adjustment_notes, a plan that met every validation
\* check included.
C14_RejectedOrConditionalHasNotes ==
    (erun.pc = "done" /\ erun.plan.score_status \in {"REJECTED", "CONDITIONAL"})
        => erun.plan.adjustment_notes # << >>

\* C15: when a create-plan request failed inside DecisionEngine.run and no
\* request is in progress, no persisted plan is without final_score and
\* score_status, no schedule belongs to an undecided plan and every decided
\* plan has its DecisionEngineResult.
Undecided(p) == p.score_status = "NONE" \/ p.final_score = NoScore

C15_FailedRunLeavesNothingPartial ==
    (/\ \A r \in Reqs : preq[r].pc \in {"idle", "done"}
     /\ \E r \in Reqs : preq[r].pc = "done" /\ preq[r].run.pc = "raised")
        => /\ \A p \in plans : ~Undecided(p)
           /\ (\E p \in plans : Undecided(p)) => emis = {}
           /\ (\E p \in plans : ~Undecided(p)) => results # {}

\* C16: a create-plan request that arrives after the decision on the plan
\* was persisted changes none of actual_down_payment, selected_term,
\* monthly_installment, final_score and score_status of the stored plan.
BindingFields(p) ==
    <<p.actual_down_payment, p.selected_term, p.monthly_installment,
      p.final_score, p.score_status>>

C16_PersistedDecisionIsFrozen ==
    [][\A r \in DOMAIN preq :
          (preq[r].after_decision /\ preq'[r] # preq[r])
              => { BindingFields(p) : p \in plans' }
                   = { BindingFields(p) : p \in plans }]_vars

\* C20: with monthly income 0 or selected term 0 DecisionEngine.run raises
\* no arithmetic error; it ends with payment_capacity_passed false for the
\* zero income and an EMI of 0 for the zero term, the plan and its decision
\* record saved.
C20_ZeroIncomeOrTermHandled ==
    (erun.plan.customer_monthly_income = 0 \/ erun.plan.selected_term = 0)
        => /\ erun.pc # "raised"
           /\ erun.pc = "done" =>
                 /\ erun.plan.customer_monthly_income = 0
                        => ~erun.plan.payment_capacity_passed
                 /\ erun.plan.selected_term = 0
                        => erun.plan.monthly_installment = 0
                 /\ plans # {} /\ results # {}

\* C22: when dynamic_adjustment changed the down payment or the term, the
\* plan it leaves has amount_to_finance, EMI, total payable, capacity result
\* and conditions_met recomputed from the adjusted numbers, and its final
\* score is the score of the adjusted plan under the biometric, reference
\* and geo inputs of the first scoring.
C22_AdjustmentRecomputesWithSameInputs ==
    [][(/\ erun.pc = "scored" /\ erun'.pc = "adjusted"
        /\ NeedsAdjustment(erun.plan) /\ Adjusted(erun.plan))
          => LET p == erun'.plan
             IN  /\ p.amount_to_finance = p.device_price - p.actual_down_payment
                 /\ p.monthly_installment = CalculateEmi(p).monthly_installment
                 /\ p.total_amount_payable =
                        p.actual_down_payment
                          + p.monthly_installment * p.selected_term
                 /\ p.payment_capacity_passed =
                        CheckPaymentCapacity(p).payment_capacity_passed
                 /\ p.conditions_met = ConditionsMet(p)
                 /\ p.final_score =
                        FinalScore(p, EngineSignal, EngineSignal, EngineSignal)
      ]_vars

\* C23: dynamic_adjustment adds exactly 5% of device_price to the down
\* payment when the plan's down-payment percentage plus 5 is at most 100 and
\* never takes it above the device price, sets the term to the tier's
\* smallest allowed term only when the term is higher, never lowers the down
\* payment or raises the term, and changes nothing of the plan when neither
\* applies.
C23_AdjustmentStepsAreBounded ==
    [][(/\ erun.pc = "scored" /\ erun'.pc \in {"adjusted", "raised"}
        /\ NeedsAdjustment(erun.plan))
          => LET p == erun.plan
                 q == erun'.plan
                 terms == GetTierRules(p.risk_tier).allowed_terms
                 raise == p.down_payment_percentage.num
                            + 5 * p.down_payment_percentage.den
                            <= 100 * p.down_payment_percentage.den
                 reduce == terms # {} /\ \E t \in terms : t < p.selected_term
             IN  /\ q.actual_down_payment * 100 =
                        IF raise
                        THEN p.actual_down_payment * 100 + 5 * p.device_price
                        ELSE p.actual_down_payment * 100
                 /\ q.actual_down_payment <= q.device_price
                 /\ reduce => /\ q.selected_term \in terms
                              /\ \A t \in terms : q.selected_term <= t
                 /\ ~reduce => q.selected_term = p.selected_term
                 /\ q.actual_down_payment >= p.actual_down_payment
                 /\ q.selected_term <= p.selected_term
                 /\ (~raise /\ ~reduce) => q = p
      ]_vars

\* how often a note is recorded
Count(notes, n) == Cardinality({ i \in DOMAIN notes : notes[i] = n })

\* C30: a run of DecisionEngine never ends with score_status APPROVED while
\* conditions_met is false.
C30_ApprovedOnlyWhenConditionsMet ==
    (erun.pc = "done" /\ erun.plan.score_status = "APPROVED")
        => erun.plan.conditions_met

\* C24: after validate_conditions, conditions_met is true exactly when the
\* down payment is at least device_price x min% / 100 (min% with the tier's
\* high-end extra for a price above 300 in tier B or C), the term is one of
\* the tier's allowed terms and the EMI is within income x k of a tier other
\* than D; when it is false, each failed check has its one note and no
\* passed check has one.
C24_ConditionsMetIffAllChecksPass ==
    erun.pc \in {"scored", "adjusted"} =>
        LET p == erun.plan
            rules == TierRules[p.risk_tier]
            minpct == rules.min_down_payment
                        + (IF p.device_price > 30000
                              /\ p.risk_tier \in {"TIER_B", "TIER_C"}
                           THEN rules.high_end_extra ELSE 0)
            down_ok == p.actual_down_payment * 100 >= p.device_price * minpct
            term_ok == p.selected_term \in rules.allowed_terms
            capacity_ok == /\ p.risk_tier # "TIER_D"
                           /\ p.monthly_installment * 100
                                 <= p.customer_monthly_income
                                      * rules.payment_capacity_factor
        IN  /\ p.conditions_met <=> (down_ok /\ term_ok /\ capacity_ok)
            /\ ~p.conditions_met =>
                  /\ Count(p.adjustment_notes, "down_payment")
                        = IF down_ok THEN 0 ELSE 1
                  /\ Count(p.adjustment_notes, "term")
                        = IF term_ok THEN 0 ELSE 1
                  /\ Count(p.adjustment_notes, "capacity")
                        = IF capacity_ok THEN 0 ELSE 1
                  /\ Count(p.adjustment_notes, "high_end") <= 1
                  /\ Count(p.adjustment_notes, "high_end") = 1 => ~down_ok

\* C24 witness: tier B, price 400.00 with 80.00 down (20%, the minimum being
\* 25%), term and capacity in order: conditions_met is false and the notes
\* are those of the down payment
C24_Witness ==
    /\ erun.pc = "scored"
    /\ erun.plan.risk_tier = "TIER_B"
    /\ erun.plan.device_price = 40000
    /\ erun.plan.actual_down_payment = 8000
    /\ erun.plan.selected_term = 8
    /\ erun.plan.payment_capacity_passed
    /\ ~erun.plan.conditions_met
    /\ erun.plan.adjustment_notes = <<"down_payment", "high_end">>

\* C27: the schedule generated when a plan is created has exactly
\* selected_term installments numbered 1..selected_term, each with
\* installment_amount = balance_remaining = the plan's monthly_installment,
\* amount_paid 0 and status UPCOMING; installment i is due (i - 1) x 15 days
\* after the first due date for a 15-day plan and (i - 1) calendar months
\* after it for a 30-day plan.
C27_GeneratedScheduleMatchesPlan ==
    [][(plans = {} /\ plans' # {})
          => \A p \in plans' :
                /\ Cardinality(emis') = p.selected_term
                /\ Numbers(emis') = 1..p.selected_term
                /\ \A e \in emis' :
                      /\ e.installment_amount = p.monthly_installment
                      /\ e.balance_remaining = p.monthly_installment
                      /\ e.amount_paid = 0
                      /\ e.status = "UPCOMING"
                      /\ e.due_date =
                            IF p.installment_frequency_days = 15
                            THEN today + FirstDueOffsetDays
                                   + (e.installment_number - 1) * 15
                            ELSE AddMonths(today + FirstDueOffsetDays,
                                           e.installment_number - 1)
      ]_vars

\* C27 witness: a 30-day plan of 4 installments created on 1 January: the
\* first is due on 31 January, the second on 28 February
C27_Witness ==
    /\ \E p \in plans : /\ p.installment_frequency_days = 30
                         /\ p.selected_term = 4
                         /\ p.monthly_installment > 0
    /\ \E r \in Reqs : preq[r].created /\ preq[r].run.pc = "start"
    /\ Cardinality(emis) = 4
    /\ \E e \in emis : e.installment_number = 1 /\ e.due_date = 30
    /\ \E e \in emis : e.installment_number = 2 /\ e.due_date = 58

\* C28: once a create-plan request has run to its end and none is in
\* progress, the schedule has exactly selected_term installments of the
\* stored plan and each installment_amount is the plan's
\* monthly_installment.
C28_ScheduleAgreesWithFinalPlan ==
    (/\ Quiet
     /\ \E r \in Reqs : preq[r].pc = "done" /\ preq[r].run.pc = "done")
        => \A p \in plans :
              /\ Cardinality(emis) = p.selected_term
              /\ \A e \in emis : e.installment_amount = p.monthly_installment

\* ------------------------------------------------------------------------
\* Claims on payments and the reschedule
\* ------------------------------------------------------------------------
PayQuiet == \A r \in PaySlots : payreq[r].pc \in {"idle", "done"}

RECURSIVE SumAmounts(_)
SumAmounts(S) ==
    IF S = {} THEN 0
    ELSE LET x == CHOOSE y \in S : TRUE
         IN  x.payment_amount + SumAmounts(S \ {x})

\* C1: a payment submitted against an installment that is PAID is rejected
\* on either path: no payment record is created for it and the installment
\* is not written.
C1_PaidInstallmentRejected ==
    \A r \in PaySlots :
        payreq[r].status_at_load = "PAID" =>
            /\ payreq[r].payment = 0
            /\ ~payreq[r].applied
            /\ payreq[r].pc = "done" => payreq[r].response = "already_paid"

\* C2: every installment has amount_paid >= 0, balance_remaining >= 0 and
\* amount_paid + balance_remaining = installment_amount, the amount paid
\* being capped at the installment amount.
C2_PaidPlusBalanceIsAmount ==
    \A e \in emis :
        /\ e.amount_paid >= 0
        /\ e.balance_remaining >= 0
        /\ e.amount_paid <= e.installment_amount
        /\ e.amount_paid + e.balance_remaining = e.installment_amount

\* C3: the reschedule runs for a payment of installment k made after the due
\* date; its delete removes exactly the installments numbered above k that
\* are not PAID and leaves every other row as it was; every installment j it
\* regenerates is numbered above k and due 15 x (j - k) days after the
\* payment date, for either installment frequency.
C3_RescheduleScopeAndDates ==
    [][\A r \in PaySlots :
          LET k == payreq[r].emi.installment_number
              paid == payreq[r].emi.paid_date
          IN  /\ (payreq[r].pc = "delete" /\ payreq'[r] # payreq[r]) =>
                    /\ payreq[r].emi.due_date < paid
                    /\ emis' = { e \in emis :
                                   ~(e.installment_number > k /\ e.status # "PAID") }
              /\ (payreq[r].pc = "regen" /\ payreq'[r] # payreq[r]) =>
                    /\ emis \subseteq emis'
                    /\ \A e \in emis' \ emis :
                          /\ e.installment_number > k
                          /\ e.due_date = paid + 15 * (e.installment_number - k)
     ]_vars

\* installment 1 of a monthly plan was paid late while installment 3 was
\* PAID: 3 is still there and 2 has been regenerated 15 days after the
\* payment
C3_Witness ==
    \E r \in PaySlots :
        /\ payreq[r].pc = "regen"
        /\ payreq[r].emi.installment_number = 1
        /\ payreq[r].next_number = 3
        /\ ThePlan.installment_frequency_days = 30
        /\ \E e \in emis : e.installment_number = 3 /\ e.status = "PAID"
        /\ \E e \in emis : /\ e.installment_number = 2
                           /\ e.due_date = payreq[r].emi.paid_date + 15
                           /\ e.id \notin Ids(generated)

\* C4: when no request is in progress the schedule holds exactly one
\* installment for each number generated at first, each with the
\* installment_amount generated at first.
C4_ScheduleKeepsNumbersAndAmounts ==
    PayQuiet =>
        /\ Numbers(emis) = Numbers(generated)
        /\ \A g \in generated :
              Cardinality({e \in emis :
                  e.installment_number = g.installment_number}) = 1
        /\ \A e \in emis : \E g \in generated :
              /\ g.installment_number = e.installment_number
              /\ g.installment_amount = e.installment_amount

\* C5: an endpoint request that failed has recorded no payment and has not
\* written the installment, and once the requests are over no installment
\* generated at first is missing from the schedule.
C5_PaymentAndRescheduleAllOrNothing ==
    \A r \in PaySlots :
        (payreq[r].pc = "done" /\ payreq[r].path = "endpoint"
                               /\ payreq[r].response = "error_500") =>
            /\ payreq[r].payment = 0
            /\ ~payreq[r].applied
            /\ PayQuiet => Numbers(generated) \subseteq Numbers(emis)

\* C6: once the requests are over, each installment's amount_paid is the sum
\* of the COMPLETED payments recorded against it, and the endpoint accepted
\* at most one payment that covers the whole installment.
C6_PaymentsSerialized ==
    PayQuiet =>
        \A e \in emis :
            /\ e.amount_paid =
                  SumAmounts({p \in payments :
                                 /\ p.emi_schedule = e.id
                                 /\ p.payment_status = "COMPLETED"})
            /\ Cardinality({r \in PaySlots :
                              /\ payreq[r].path = "endpoint"
                              /\ payreq[r].emi.id = e.id
                              /\ payreq[r].payment # 0
                              /\ payreq[r].amount >= e.installment_amount}) <= 1

\* C12: every persisted FinancePlan has amount_to_finance = device_price -
\* actual_down_payment, and amount_to_finance >= 0.
C12_AmountToFinanceIsPriceLessDown ==
    \A p \in plans :
        /\ p.amount_to_finance = p.device_price - p.actual_down_payment
        /\ p.amount_to_finance >= 0

\* C26: on either payment path, an installment whose status is not PAID has
\* no paid_date.
C26_PaidDateOnlyWhenPaid ==
    \A e \in emis : e.status # "PAID" => e.paid_date = NoDate

RECURSIVE SumPaid(_)
SumPaid(S) ==
    IF S = {} THEN 0
    ELSE LET x == CHOOSE y \in S : TRUE
         IN  x.amount_paid + SumPaid(S \ {x})

\* C29: when no request is in progress, the sum of amount_paid over the
\* plan's installments equals the sum of the amounts of its COMPLETED
\* payment records.
C29_PaidSumEqualsCompletedPayments ==
    PayQuiet =>
        SumPaid(emis) =
            SumAmounts({p \in payments : p.payment_status = "COMPLETED"})

\* ------------------------------------------------------------------------
\* Claims on the pre-qualification flow
\* ------------------------------------------------------------------------
\* C11: a pre-qualification is produced only from a credit score whose
\* validity has not passed at the time of the request (now <=
\* score_valid_until).
C11_DecisionNeedsValidScore ==
    \A i \in 1..Len(autoreq) :
        autoreq[i].response = "created" =>
            autoreq[i].day <= autoreq[i].score_valid_until

\* the tier of a score under thresholds <<a, b, c>>
TierUnder(t, apc) ==
    IF apc >= t[1] THEN "TIER_A"
    ELSE IF apc >= t[2] THEN "TIER_B"
    ELSE IF apc >= t[3] THEN "TIER_C"
    ELSE "TIER_D"

\* C19: while the configuration row holds custom thresholds, the tier a
\* pre-qualification reports is the tier of the score under those
\* thresholds.
C19_ConfiguredThresholdsUsed ==
    \A i \in 1..Len(autoreq) :
        (autoreq[i].response = "created" /\ autoreq[i].thresholds # << >>) =>
            autoreq[i].risk_tier =
                TierUnder(ThresholdArgs(autoreq[i].thresholds),
                          autoreq[i].apc_score)

ClampedCapacityTimes(p, k) ==
    IF p.maximum_allowed_installment <= 0
       \/ p.monthly_installment * 100 > p.maximum_allowed_installment
    THEN 0
    ELSE k * (p.maximum_allowed_installment - p.monthly_installment * 100)

ClampedWeightedFloor(p, b, r, g) ==
    IF p.maximum_allowed_installment <= 0
    THEN (Min2(300, IF p.apc_score > 500 THEN p.apc_score - 500 ELSE 0)
            + 2 * b + r + g) \div 10
    ELSE ((Min2(300, IF p.apc_score > 500 THEN p.apc_score - 500 ELSE 0)
             + 2 * b + r + g) * p.maximum_allowed_installment
            + ClampedCapacityTimes(p, 300))
         \div (10 * p.maximum_allowed_installment)

\* C13: calculate_final_score leaves final_score = floor of the weighted sum
\* with apc_norm and capacity_norm each clamped to 0..100, an integer in
\* 0..100.
C13_FinalScoreIsClampedFloor ==
    erun.pc = "score" =>
        /\ erun.plan.final_score \in 0..100
        /\ erun.plan.final_score =
               ClampedWeightedFloor(erun.plan, erun.signals[1],
                                    erun.signals[2], erun.signals[3])

\* C17: for amount_to_finance > 0 and selected_term > 0 calculate_emi leaves
\* a whole-unit EMI with emi x term >= amount_to_finance and emi x term -
\* amount_to_finance < term; with the term or the amount 0 it leaves 0.
C17_EmiCoversAmountWithBoundedExcess ==
    erun.pc = "emi" =>
        IF erun.plan.amount_to_finance > 0 /\ erun.plan.selected_term > 0
        THEN /\ erun.plan.monthly_installment % 100 = 0
             /\ erun.plan.monthly_installment * erun.plan.selected_term
                    >= erun.plan.amount_to_finance
             /\ erun.plan.monthly_installment * erun.plan.selected_term
                    - erun.plan.amount_to_finance
                    < 100 * erun.plan.selected_term
        ELSE erun.plan.monthly_installment = 0

\* C17 witness: 80.01 over 3 installments gives an EMI of 27.00
C17_Witness ==
    /\ erun.pc = "emi"
    /\ erun.plan.amount_to_finance = 8001
    /\ erun.plan.selected_term = 3
    /\ erun.plan.monthly_installment = 2700

\* lower-risk tiers rank higher
TierRank(t) ==
    CASE t = "TIER_A" -> 4 [] t = "TIER_B" -> 3 [] t = "TIER_C" -> 2
      [] OTHER -> 1

\* C18: determine_risk_tier, on FinancePlan and on AutoFinancePlan, gives
\* TIER_A iff s >= 600, TIER_B iff 550 <= s <= 599, TIER_C iff 500 <= s <=
\* 549 and TIER_D iff s < 500; for s1 < s2 the tier of s1 is never a
\* lower-risk tier than the tier of s2.
C18_TierBoundariesAndMonotone ==
    /\ erun.pc \in {"tier", "auto_tier"} =>
          /\ erun.plan.risk_tier = "TIER_A" <=> erun.plan.apc_score >= 600
          /\ erun.plan.risk_tier = "TIER_B" <=>
                 (550 <= erun.plan.apc_score /\ erun.plan.apc_score <= 599)
          /\ erun.plan.risk_tier = "TIER_C" <=>
                 (500 <= erun.plan.apc_score /\ erun.plan.apc_score <= 549)
          /\ erun.plan.risk_tier = "TIER_D" <=> erun.plan.apc_score < 500
    /\ erun.pc \in {"tier", "auto_tier"} =>
          \A s \in CalcApcScores :
              s < erun.plan.apc_score =>
                  /\ TierRank(DetermineRiskTier(s)) <= TierRank(erun.plan.risk_tier)
                  /\ TierRank(AutoDetermineRiskTier(s))
                         <= TierRank(erun.plan.risk_tier)

\* C18 witness: the score 599 is classified TIER_B by either method
C18_Witness ==
    /\ erun.pc \in {"tier", "auto_tier"}
    /\ erun.plan.apc_score = 599
    /\ erun.plan.risk_tier = "TIER_B"

\* ------------------------------------------------------------------------
\* Claims on the installments
\* ------------------------------------------------------------------------
\* C25: update_status leaves PAID with balance 0 when amount_paid >=
\* installment_amount; otherwise PARTIALLY_PAID with balance = amount - paid
\* when amount_paid > 0; otherwise OVERDUE with days_overdue = today -
\* due_date and the full balance when today > due_date; otherwise DUE when
\* today = due_date; otherwise UPCOMING.
C25_StatusFollowsPaidAndDate ==
    erun.pc = "status" =>
        \A e \in emis :
            IF e.amount_paid >= e.installment_amount
            THEN e.status = "PAID" /\ e.balance_remaining = 0
            ELSE IF e.amount_paid > 0
            THEN /\ e.status = "PARTIALLY_PAID"
                 /\ e.balance_remaining = e.installment_amount - e.amount_paid
            ELSE IF today > e.due_date
            THEN /\ e.status = "OVERDUE"
                 /\ e.days_overdue = today - e.due_date
                 /\ e.balance_remaining = e.installment_amount
            ELSE IF today = e.due_date
            THEN e.status = "DUE"
            ELSE e.status = "UPCOMING"

\* C25 witness: an installment of 80.00 with nothing paid, 31 days after its
\* due date
C25_Witness ==
    /\ erun.pc = "status"
    /\ today = 61
    /\ \E e \in emis : /\ e.installment_amount = 8000
                        /\ e.amount_paid = 0
                        /\ e.status = "OVERDUE"
                        /\ e.days_overdue = 31
                        /\ e.balance_remaining = 8000

====
